---------------------------- MODULE Spec2Model ----------------------------
(***************************************************************************)
(* A model of the MOI (Movement of Interest) matcher of tss/camera/moi.py, *)
(* of the MOI construction and loading it depends on, and of the           *)
(* per-camera frame pipeline (VideoReader batches carried through a        *)
(* bounded queue).                                                         *)
(*                                                                         *)
(* Encodings.                                                              *)
(*  - Python's None is the empty sequence <<>>; a value v that may be None *)
(*    is <<v>>.                                                            *)
(*  - A point is <<x, y>>; a bounding box is <<x1, y1, x2, y2>>.           *)
(*  - A distance is kept as its square (an integer).  Comparing a distance *)
(*    d >= 0 with an integer threshold t is exact on squares:              *)
(*    d > t  <=>  t < 0 \/ d^2 > t^2.                                      *)
(*  - The bounding-box centre ((x1+x2)/2, (y1+y2)/2) may be a half         *)
(*    integer; the point-in-polygon test is computed on coordinates        *)
(*    doubled on both sides, which is exact.                               *)
(*  - An angle is in whole degrees.  Reference paths and trajectories are  *)
(*    drawn from points whose direction vectors are compass directions,    *)
(*    for which the angle is an exact multiple of 45.                      *)
(***************************************************************************)
EXTENDS Integers, Sequences, FiniteSets, TLC

VARIABLES
    \* the MOI registry and the matcher
    mois,        \* the loaded MOI list (load_mois_from_file's result)
    loadStatus,  \* "pending" before the load; then "ok" or the exception raised
    gmos,        \* the tracked objects: moi_uuid, current_bbox, trajectory
    last,        \* the last associate call: its arguments and the moi_uuid's before it
    \* the bounded queue of one camera
    buf,         \* the buffered items, oldest first
    closed,      \* close() has been called
    pcP,         \* per producer: "idle", or "put" while inside put(item)
    itemP,       \* per producer: the item of its put call in progress
    issued,      \* number of items handed to put so far
    accepted,    \* the items whose put returned, in that order
    rejected,    \* the items whose put failed with QueueClosed
    atClose,     \* <<accepted>> as it was at the first close(), None before
    pcC,         \* the consumer: "idle", "get" while inside get(), "done" after end-of-stream
    delivered,   \* the items get() returned, in that order
    \* the VideoReader of one camera
    pcR,         \* "new" after construction, "iter" after __iter__, "stopped" after StopIteration
    num_frames,  \* VideoReader.num_frames
    batch_size,  \* VideoReader.batch_size
    frame_idx,   \* VideoReader.frame_idx
    cap_open,    \* VideoReader.cap has not been released
    cap_pos,     \* number of frames cap.read() has been asked for
    yielded,     \* what VideoReader.__next__ returned, call by call
    \* an ImageReader
    pcI,         \* "new" after construction, "iter" after __iter__, "IndexError" after one
    images,      \* ImageReader.images: the image files found, as a list
    image_batch, \* ImageReader.batch_size
    image_idx,   \* ImageReader.frame_idx
    image_reads, \* the list positions __next__ has indexed self.images with, in order
    image_out    \* what ImageReader.__next__ returned, call by call

matchVars == <<mois, loadStatus, gmos, last>>
queueVars == <<buf, closed, pcP, itemP, issued, accepted, rejected, atClose, pcC, delivered>>
readerVars == <<pcR, num_frames, batch_size, frame_idx>>
capVars == <<cap_open, cap_pos, yielded>>
imageVars == <<pcI, images, image_batch, image_idx, image_reads, image_out>>
ioVars == <<capVars, imageVars>>
vars == <<matchVars, queueVars, readerVars, ioVars>>

\* ------------------------------------------------------------------ bounds

MaxMois == 2     \* MOI records in one configuration file
MaxTrack == 3    \* points in a trajectory
QueueSize == 2   \* capacity N of the bounded queue
MaxItems == 4    \* items handed to put in one run of the queue alone
MaxFrames == 5   \* frames of a recorded video
MaxBatch == 2    \* VideoReader.batch_size
MaxImages == 6   \* image files in a directory
MaxImageBatch == 4  \* ImageReader.batch_size
MaxCalls == 3    \* calls of ImageReader.__next__ in one iteration

\* ------------------------------------------------------------ small helpers

None == <<>>
Some(v) == <<v>>

Max(S) == CHOOSE x \in S : \A y \in S : y <= x
Min(S) == CHOOSE x \in S : \A y \in S : x <= y
Abs(x) == IF x < 0 THEN -x ELSE x
Sgn(x) == IF x < 0 THEN -1 ELSE IF x > 0 THEN 1 ELSE 0
Range(s) == {s[i] : i \in 1..Len(s)}

\* All sequences over S without repetition, of length at most n.
InjSeqs(S, n) ==
    UNION {{s \in [1..k -> S] : \A i, j \in 1..k : i # j => s[i] # s[j]} : k \in 0..n}

\* ------------------------------------------------------- MOI construction

\* The points argument of MOI.__init__: not given (None), or a list of
\* coordinate lists.
NoPoints == [given |-> FALSE, pts |-> <<>>]
Points(ps) == [given |-> TRUE, pts |-> ps]

\* MOI.points setter: a list (or an array) is stored; for anything else, None
\* included, neither branch assigns and the attribute _points is never set.
PointsSetter(points) ==
    IF points.given THEN [set |-> TRUE, value |-> points.pts]
                    ELSE [set |-> FALSE, value |-> <<>>]

\* The validation of MOI.__init__: all(len(track) >= 2 for track in
\* self.points) iterates the rows of the points array, so each "track" is one
\* point and len(track) is its number of coordinates.
AllTracksLongEnough(pts) == \A i \in 1..Len(pts) : Len(pts[i]) >= 2

\* MOI.__init__: the constructed object, or the exception raised.  Reading
\* self.points when the setter stored nothing raises AttributeError.
MOIInit(raw) ==
    LET stored == PointsSetter(raw.points)
    IN  IF ~stored.set
          THEN [ok |-> FALSE, error |-> "AttributeError", moi |-> <<>>]
        ELSE IF ~AllTracksLongEnough(stored.value)
          THEN [ok |-> FALSE, error |-> "ValueError", moi |-> <<>>]
        ELSE [ok |-> TRUE, error |-> "none",
              moi |-> <<[uuid |-> raw.uuid,
                         points |-> stored.value,
                         shape_type |-> raw.shape_type,
                         distance_threshold |-> raw.distance_threshold,
                         angle_threshold |-> raw.angle_threshold]>>]

\* MOI.load_mois_from_file, the loop over the records of the file: the list
\* of constructed MOIs, or the first exception, which ends the load.
RECURSIVE LoadFrom(_, _)
LoadFrom(data, acc) ==
    IF data = <<>> THEN [ok |-> TRUE, error |-> "none", mois |-> acc]
    ELSE LET made == MOIInit(Head(data))
         IN  IF made.ok THEN LoadFrom(Tail(data), acc \o made.moi)
                        ELSE [ok |-> FALSE, error |-> made.error, mois |-> <<>>]

load_mois_from_file(data) == LoadFrom(data, <<>>)

\* ------------------------------------------------------------- geometry

Sub(p, q) == <<p[1] - q[1], p[2] - q[2]>>
Dist2(p, q) == (p[1] - q[1]) * (p[1] - q[1]) + (p[2] - q[2]) * (p[2] - q[2])

\* The discrete Hausdorff distance between two point sequences (squared):
\* the largest distance from a point of one to the nearest point of the other.
Directed2(a, b) == Max({Min({Dist2(p, q) : q \in Range(b)}) : p \in Range(a)})
hausdorff(a, b) ==
    LET ab == Directed2(a, b)
        ba == Directed2(b, a)
    IN  IF ab >= ba THEN ab ELSE ba

\* The compass direction (0..7, counter-clockwise from +x in steps of 45
\* degrees) of a vector that lies on an axis or a diagonal.
Compass(v) ==
    LET s == <<Sgn(v[1]), Sgn(v[2])>>
    IN  CASE s = <<1, 0>> -> 0   [] s = <<1, 1>> -> 1
          [] s = <<0, 1>> -> 2   [] s = <<-1, 1>> -> 3
          [] s = <<-1, 0>> -> 4  [] s = <<-1, -1>> -> 5
          [] s = <<0, -1>> -> 6  [] s = <<1, -1>> -> 7

\* The angle, in degrees, between the direction vectors (last point minus
\* first point) of two point sequences.
angle_between_arrays(a, b) ==
    LET i == Compass(Sub(a[Len(a)], a[1]))
        j == Compass(Sub(b[Len(b)], b[1]))
        k == Abs(i - j)
    IN  45 * (IF k <= 8 - k THEN k ELSE 8 - k)

\* p on the closed segment from a to b.
OnSegment(p, a, b) ==
    /\ (b[1] - a[1]) * (p[2] - a[2]) - (b[2] - a[2]) * (p[1] - a[1]) = 0
    /\ Min({a[1], b[1]}) <= p[1] /\ p[1] <= Max({a[1], b[1]})
    /\ Min({a[2], b[2]}) <= p[2] /\ p[2] <= Max({a[2], b[2]})

\* The edge from a to b crosses the horizontal ray from p towards +x.
CrossesRay(p, a, b) ==
    LET dy == b[2] - a[2]
        t == (p[2] - a[2]) * (b[1] - a[1]) - (p[1] - a[1]) * dy
    IN  /\ (a[2] > p[2]) # (b[2] > p[2])
        /\ IF dy > 0 THEN t > 0 ELSE t < 0

\* cv2.pointPolygonTest without distance: +1 inside the closed contour, 0 on
\* an edge or a vertex, -1 outside.
pointPolygonTest(contour, p) ==
    LET n == Len(contour)
        nxt(i) == IF i = n THEN 1 ELSE i + 1
    IN  IF \E i \in 1..n : OnSegment(p, contour[i], contour[nxt(i)]) THEN 0
        ELSE IF Cardinality({i \in 1..n :
                     CrossesRay(p, contour[i], contour[nxt(i)])}) % 2 = 1 THEN 1
        ELSE -1

\* ----------------------------------------------------------------- matching

\* distance > threshold, on the squared distance.
DistanceExceeds(d2, threshold) == threshold < 0 \/ d2 > threshold * threshold

\* MOI.distances_with_track: None when the distance exceeds the MOI's
\* distance_threshold, else the distance.
distances_with_track(moi, object_track) ==
    LET distance == hausdorff(moi.points, object_track)
    IN  IF DistanceExceeds(distance, moi.distance_threshold) THEN None
        ELSE Some(distance)

\* A variant of angles_with_track that never applies the angle threshold.
angles_without_threshold(moi, object_track) ==
    Some(angle_between_arrays(moi.points, object_track))

\* MOI.angles_with_track: None when the angle exceeds the MOI's
\* angle_threshold, else the angle.
angles_with_track(moi, object_track) ==
    LET angle == angle_between_arrays(moi.points, object_track)
    IN  IF angle > moi.angle_threshold THEN None ELSE Some(angle)

\* MOI.is_center_in_or_touch_moi: the point-in-polygon test of the centre of
\* the bounding box ((x1+x2)/2, (y1+y2)/2), with both sides doubled.
is_center_in_or_touch_moi(moi, bbox_xyxy) ==
    LET c2 == <<bbox_xyxy[1] + bbox_xyxy[3], bbox_xyxy[2] + bbox_xyxy[4]>>
        pts2 == [i \in 1..Len(moi.points) |->
                    <<2 * moi.points[i][1], 2 * moi.points[i][2]>>]
    IN  pointPolygonTest(pts2, c2)

\* The test find_moi_for_bbox applies to is_center_in_or_touch_moi's result.
BBoxMatches(moi, bbox_xyxy) == is_center_in_or_touch_moi(moi, bbox_xyxy) > 0

\* MOI.find_moi_for_bbox: the uuid of the first MOI of the list whose test
\* passes, else None.
RECURSIVE find_moi_for_bbox(_, _)
find_moi_for_bbox(bbox_xyxy, ms) ==
    IF ms = <<>> THEN None
    ELSE IF BBoxMatches(Head(ms), bbox_xyxy) THEN Some(Head(ms).uuid)
    ELSE find_moi_for_bbox(bbox_xyxy, Tail(ms))

\* Variants of KeepsMinimum: one that also keeps the running minimum on an
\* equal distance, one with the comparison reversed.
KeepsMinimumOnTie(min_distance, d) == min_distance # None /\ min_distance[1] <= d[1]
KeepsMaximum(min_distance, d) == min_distance # None /\ min_distance[1] > d[1]

\* The test of best_matched_moi's second loop that keeps the running minimum
\* and skips the candidate at distance d.
KeepsMinimum(min_distance, d) == min_distance # None /\ min_distance[1] < d[1]

\* MOI.best_matched_moi, its second loop from position i on, with the running
\* minimum (min_moi_uuid, min_distance).
RECURSIVE BestFrom(_, _, _, _, _)
BestFrom(ms, object_track, i, min_moi_uuid, min_distance) ==
    IF i > Len(ms) THEN <<min_moi_uuid, min_distance>>
    ELSE LET d == distances_with_track(ms[i], object_track)
             a == angles_with_track(ms[i], object_track)
         IN  IF d = None \/ a = None
               THEN BestFrom(ms, object_track, i + 1, min_moi_uuid, min_distance)
             ELSE IF KeepsMinimum(min_distance, d)
               THEN BestFrom(ms, object_track, i + 1, min_moi_uuid, min_distance)
             ELSE BestFrom(ms, object_track, i + 1, Some(ms[i].uuid), d)

\* MOI.best_matched_moi: (uuid, distance) of the best match, (None, None)
\* when no MOI passes its thresholds.
best_matched_moi(object_track, ms) == BestFrom(ms, object_track, 1, None, None)

IsPolygon(m) == m.shape_type = "polygon"
IsLinestrip(m) == m.shape_type = "linestrip"
polygon_mois(ms) == SelectSeq(ms, IsPolygon)
linestrip_mois(ms) == SelectSeq(ms, IsLinestrip)

\* A variant of MayAssign that does not look at the current moi_uuid.
MayAssignAlways(o) == TRUE

\* The guard under which associate_moving_objects_to_mois writes o.moi_uuid.
MayAssign(o) == o.moi_uuid = None

\* A variant of AssociateOne in which a polygon call without a match goes on
\* to linestrip matching.
AssociateOneWithFallback(o, ms, shape_type) ==
    IF shape_type = "polygon" /\ o.moi_uuid = None
      THEN LET found == find_moi_for_bbox(o.current_bbox, polygon_mois(ms))
           IN  [o EXCEPT !.moi_uuid =
                   IF found # None THEN found
                   ELSE best_matched_moi(o.trajectory, linestrip_mois(ms))[1]]
    ELSE IF shape_type = "linestrip" /\ o.moi_uuid = None
      THEN [o EXCEPT !.moi_uuid = best_matched_moi(o.trajectory, linestrip_mois(ms))[1]]
    ELSE o

\* The body of associate_moving_objects_to_mois for one object o.
AssociateOne(o, ms, shape_type) ==
    IF shape_type = "polygon" /\ MayAssign(o)
      THEN [o EXCEPT !.moi_uuid = find_moi_for_bbox(o.current_bbox, polygon_mois(ms))]
    ELSE IF shape_type = "linestrip" /\ MayAssign(o)
      THEN [o EXCEPT !.moi_uuid = best_matched_moi(o.trajectory, linestrip_mois(ms))[1]]
    ELSE o

\* ------------------------------------------------- inputs of the matcher

\* A record of the MOI configuration file.
Raw(uuid, points, shape_type, distance_threshold, angle_threshold) ==
    [uuid |-> uuid, points |-> points, shape_type |-> shape_type,
     distance_threshold |-> distance_threshold, angle_threshold |-> angle_threshold]

\* Two overlapping zones and three reference paths; 300.0 and 45.0 are the
\* thresholds MOI.__init__ defaults to.
WellFormedRecords ==
    { Raw(1, Points(<< <<0, 0>>, <<4, 0>>, <<4, 4>>, <<0, 4>> >>), "polygon", 300, 45),
      Raw(2, Points(<< <<2, 0>>, <<8, 0>>, <<8, 4>>, <<2, 4>> >>), "polygon", 300, 45),
      Raw(3, Points(<< <<0, 0>>, <<4, 0>> >>), "linestrip", 300, 45),
      Raw(4, Points(<< <<0, 0>>, <<4, 4>> >>), "linestrip", 4, 45),
      Raw(5, Points(<< <<4, 4>>, <<0, 0>> >>), "linestrip", 0, 0) }

\* Records MOI.__init__ has to judge: no points, an empty list, one point, a
\* point with a single coordinate.
MalformedRecords ==
    { Raw(6, NoPoints, "linestrip", 300, 45),
      Raw(7, Points(<<>>), "linestrip", 300, 45),
      Raw(8, Points(<< <<4, 4>> >>), "linestrip", 300, 45),
      Raw(9, Points(<< <<4, 4>> >>), "polygon", 300, 45),
      Raw(10, Points(<< <<4>>, <<0>> >>), "linestrip", 300, 45) }

Objects == {1}

\* Centres (1.5, 2): inside zone 1 only; (3, 2): inside both zones;
\* (4, 2): on an edge of zone 1 and inside zone 2; (9, 2): outside both.
BBoxes == { <<0, 1, 3, 3>>, <<2, 1, 4, 3>>, <<3, 1, 5, 3>>, <<8, 1, 10, 3>> }

TrackPoints == { <<0, 0>>, <<4, 0>>, <<4, 4>> }

\* A new object's trajectory: two distinct positions.
InitialTrajectories == {t \in [1..2 -> TrackPoints] : t[1] # t[2]}

ShapeTypes == {"polygon", "linestrip", "circle"}

NoCall == [op |-> "none", shape_type |-> "", passed |-> {},
           before |-> [o \in Objects |-> None]]

\* ------------------------------------------------------------ state machine

MatchInit ==
    /\ mois = <<>>
    /\ loadStatus = "pending"
    /\ gmos \in [Objects -> {[moi_uuid |-> None, current_bbox |-> b,
                              trajectory |-> t] :
                                 b \in BBoxes, t \in InitialTrajectories}]
    /\ last = NoCall

\* The camera's startup: MOI.load_mois_from_file on a configuration with the
\* records data, once.  An exception ends the startup.
Load(data) ==
    LET loaded == load_mois_from_file(data)
    IN  /\ loadStatus = "pending"
        /\ mois' = loaded.mois
        /\ loadStatus' = IF loaded.ok THEN "ok" ELSE loaded.error
        /\ last' = NoCall
        /\ UNCHANGED gmos

LoadWellFormed == \E data \in InjSeqs(WellFormedRecords, MaxMois) : Load(data)

LoadAny ==
    \E data \in InjSeqs(WellFormedRecords \cup MalformedRecords, MaxMois) : Load(data)

\* The tracker moves the object's bounding box.
MoveBBox ==
    \E o \in Objects, b \in BBoxes :
        /\ b # gmos[o].current_bbox
        /\ gmos' = [gmos EXCEPT ![o].current_bbox = b]
        /\ last' = NoCall
        /\ UNCHANGED <<mois, loadStatus>>

\* The tracker appends a position to the object's trajectory: a moving
\* object, its new position differs from the previous one and from the first.
ExtendTrajectory ==
    \E o \in Objects, p \in TrackPoints :
        LET t == gmos[o].trajectory
        IN  /\ Len(t) < MaxTrack
            /\ p # t[Len(t)] /\ p # t[1]
            /\ gmos' = [gmos EXCEPT ![o].trajectory = Append(t, p)]
            /\ last' = NoCall
            /\ UNCHANGED <<mois, loadStatus>>

\* MOI.associate_moving_objects_to_mois(gmos = passed, mois, shape_type).
Associate ==
    \E passed \in SUBSET Objects, shape_type \in ShapeTypes :
        /\ loadStatus = "ok"
        /\ gmos' = IF Cardinality(passed) <= 0 THEN gmos
                   ELSE [o \in Objects |->
                            IF o \in passed
                              THEN AssociateOne(gmos[o], mois, shape_type)
                              ELSE gmos[o]]
        /\ last' = [op |-> "associate", shape_type |-> shape_type,
                    passed |-> passed,
                    before |-> [o \in Objects |-> gmos[o].moi_uuid]]
        /\ UNCHANGED <<mois, loadStatus>>

\* ------------------------------------------------------------ BoundedQueue

Producers == {"p1", "p2"}

QueueInit ==
    /\ buf = <<>>
    /\ closed = FALSE
    /\ pcP = [p \in Producers |-> "idle"]
    /\ itemP = [p \in Producers |-> <<>>]
    /\ issued = 0
    /\ accepted = <<>>
    /\ rejected = {}
    /\ atClose = None
    /\ pcC = "idle"
    /\ delivered = <<>>

\* A variant of HasRoom that is off by one.
HasRoomOrFull == Len(buf) <= QueueSize

\* The buffer is below its capacity.
HasRoom == Len(buf) < QueueSize

\* A variant of CanStore that does not look at closed.
CanStoreWhenClosed == HasRoom

\* put(item) may store its item: the queue is open and below its capacity.
CanStore == ~closed /\ HasRoom

\* What get() removes from the buffer and returns.
Dequeued(b) == Head(b)
Remaining(b) == Tail(b)

\* What a completed put makes of the buffer.
Enqueued(b, item) == Append(b, item)

\* A producer enters put(item).
EnterPut(p, item) ==
    /\ pcP[p] = "idle"
    /\ pcP' = [pcP EXCEPT ![p] = "put"]
    /\ itemP' = [itemP EXCEPT ![p] = item]

\* A producer of the queue alone calls put with the next opaque item (a batch
\* of one frame).
PutCall ==
    \E p \in Producers :
        /\ issued < MaxItems
        /\ EnterPut(p, <<issued + 1>>)
        /\ issued' = issued + 1
        /\ UNCHANGED <<buf, closed, accepted, rejected, atClose, pcC, delivered>>

\* put(item) returns: the queue is open and capacity is free.
PutComplete ==
    \E p \in Producers :
        /\ pcP[p] = "put"
        /\ CanStore
        /\ buf' = Enqueued(buf, itemP[p])
        /\ accepted' = Append(accepted, itemP[p])
        /\ pcP' = [pcP EXCEPT ![p] = "idle"]
        /\ itemP' = [itemP EXCEPT ![p] = <<>>]
        /\ UNCHANGED <<closed, issued, rejected, atClose, pcC, delivered>>

\* put(item) fails with QueueClosed: the queue is closed.
PutFail ==
    \E p \in Producers :
        /\ pcP[p] = "put"
        /\ closed
        /\ rejected' = rejected \cup {itemP[p]}
        /\ pcP' = [pcP EXCEPT ![p] = "idle"]
        /\ itemP' = [itemP EXCEPT ![p] = <<>>]
        /\ UNCHANGED <<buf, closed, issued, accepted, atClose, pcC, delivered>>

\* The consumer enters get().
GetCall ==
    /\ pcC = "idle"
    /\ pcC' = "get"
    /\ UNCHANGED <<buf, closed, pcP, itemP, issued, accepted, rejected, atClose, delivered>>

\* get() returns the oldest buffered item.
GetItem ==
    /\ pcC = "get"
    /\ buf # <<>>
    /\ delivered' = Append(delivered, Dequeued(buf))
    /\ buf' = Remaining(buf)
    /\ pcC' = "idle"
    /\ UNCHANGED <<closed, pcP, itemP, issued, accepted, rejected, atClose>>

\* get() returns the end-of-stream signal: the queue is closed and drained.
GetEOS ==
    /\ pcC = "get"
    /\ buf = <<>>
    /\ closed
    /\ pcC' = "done"
    /\ UNCHANGED <<buf, closed, pcP, itemP, issued, accepted, rejected, atClose, delivered>>

\* close().
Close ==
    /\ closed' = TRUE
    /\ atClose' = IF closed THEN atClose ELSE Some(accepted)
    /\ UNCHANGED <<buf, pcP, itemP, issued, accepted, rejected, pcC, delivered>>

\* ------------------------------------------------------------- VideoReader

\* The state VideoReader.__init__ leaves: an online stream keeps num_frames
\* at -1, a video file sets it to the file's frame count.
ReaderInit ==
    /\ pcR = "new"
    /\ num_frames \in {-1} \cup 0..MaxFrames
    /\ batch_size \in 1..MaxBatch
    /\ frame_idx = 0

\* VideoReader.__next__ raises StopIteration.
Exhausted(idx, total) == idx >= total

\* The frame index __next__ moves to before it reads a frame.
Advance(idx) == idx + 1

\* A variant of Recorded that records the loop variable.
RecordedLoopVariable(i, idx) == i

\* The frame index __next__ appends to frame_indexes in iteration i, after
\* moving to idx.
Recorded(i, idx) == idx

\* VideoReader.__next__, its loop from iteration i on: the frame index it
\* ends at and the frame indexes it returns.
RECURSIVE BatchLoop(_, _, _, _, _)
BatchLoop(i, idx, frame_indexes, total, size) ==
    IF i >= size THEN [frame_idx |-> idx, frame_indexes |-> frame_indexes]
    ELSE LET moved == Advance(idx)
         IN  IF moved >= total
               THEN [frame_idx |-> moved, frame_indexes |-> frame_indexes]
               ELSE BatchLoop(i + 1, moved, Append(frame_indexes, Recorded(i, moved)),
                              total, size)

NextBatch(idx, total, size) == BatchLoop(0, idx, <<>>, total, size)

\* VideoReader.__iter__.
ReaderIter ==
    /\ pcR = "new"
    /\ pcR' = "iter"
    /\ frame_idx' = 0
    /\ UNCHANGED <<num_frames, batch_size>>

\* The camera's producer, one turn of its loop: VideoReader.__next__, then
\* put of the batch it returned; StopIteration ends the loop.
ReaderNext ==
    /\ pcR = "iter"
    /\ pcP["p1"] = "idle"
    /\ IF Exhausted(frame_idx, num_frames)
         THEN /\ pcR' = "stopped"
              /\ UNCHANGED <<frame_idx, pcP, itemP>>
         ELSE LET got == NextBatch(frame_idx, num_frames, batch_size)
              IN  /\ frame_idx' = got.frame_idx
                  /\ EnterPut("p1", got.frame_indexes)
                  /\ pcR' = pcR
    /\ UNCHANGED <<num_frames, batch_size>>
    /\ UNCHANGED <<buf, closed, issued, accepted, rejected, atClose, pcC, delivered>>

\* ---------------------------------------------- the VideoReader on its own
\* The reader iterated directly, with what its capture hands out recorded.
\* A frame is named by its position in the source, counted from 1.

\* cap.read(): the next frame of the source. A live stream (num_frames = -1)
\* always has one; a file has num_frames of them; a released capture and a
\* file read past its end give no image.
CapRead(open, pos, total) ==
    IF open /\ (total = -1 \/ pos < total) THEN Some(pos + 1) ELSE None

\* The images of one batch: one cap.read() per recorded frame index.
BatchImages(open, pos, total, n) ==
    [k \in 1..n |-> CapRead(open, pos + k - 1, total)]

\* __init__ with either a stream or a file: the capture is open and unread.
CapInit ==
    /\ cap_open = TRUE
    /\ cap_pos = 0
    /\ yielded = <<>>

\* __next__, called by a for loop: StopIteration ends the loop, otherwise the
\* batch (frame_indexes, images) is returned.
VideoNext ==
    /\ pcR = "iter"
    /\ IF Exhausted(frame_idx, num_frames)
         THEN /\ pcR' = "stopped"
              /\ UNCHANGED <<frame_idx, cap_pos, yielded>>
         ELSE LET got == NextBatch(frame_idx, num_frames, batch_size)
                  n   == Len(got.frame_indexes)
              IN  /\ frame_idx' = got.frame_idx
                  /\ cap_pos' = cap_pos + n
                  /\ yielded' = Append(yielded,
                        [frame_indexes |-> got.frame_indexes,
                         images |-> BatchImages(cap_open, cap_pos, num_frames, n)])
                  /\ pcR' = pcR
    /\ UNCHANGED <<num_frames, batch_size, cap_open>>

\* close_stream(): release the capture.
CloseStream ==
    /\ cap_open' = FALSE
    /\ UNCHANGED <<pcR, num_frames, batch_size, frame_idx, cap_pos, yielded>>

\* ------------------------------------------------------------ ImageReader
\* The image files are named 1, 2, .. in the order of the list; list positions
\* count from 0 as in the source.

\* __init__ with a directory: the image files found there.
ImageInit ==
    /\ pcI = "new"
    /\ images \in {[k \in 1..m |-> k] : m \in 0..MaxImages}
    /\ image_batch \in 1..MaxImageBatch
    /\ image_idx = 0
    /\ image_reads = <<>>
    /\ image_out = <<>>

number_of_frame == Len(images)

\* self.images[pos]: the file at a list position, an IndexError outside the list.
InRange(pos, list) == pos >= 0 /\ pos < Len(list)
ItemAt(pos, list) == list[pos + 1]

\* The loop of __next__: each round that still has frames moves frame_idx,
\* records it and then reads the list at the moved index.
RECURSIVE ImageLoop(_, _, _, _, _, _, _)
ImageLoop(i, idx, frame_ids, imgs, reads, list, size) ==
    IF i >= size
      THEN [frame_idx |-> idx, frame_ids |-> frame_ids, images |-> imgs,
            reads |-> reads, raised |-> FALSE]
      ELSE IF idx < Len(list)
             THEN LET moved == idx + 1
                  IN  IF InRange(moved, list)
                        THEN ImageLoop(i + 1, moved, Append(frame_ids, moved),
                                       Append(imgs, ItemAt(moved, list)),
                                       Append(reads, moved), list, size)
                        ELSE [frame_idx |-> moved, frame_ids |-> Append(frame_ids, moved),
                              images |-> imgs, reads |-> Append(reads, moved),
                              raised |-> TRUE]
             ELSE ImageLoop(i + 1, idx, frame_ids, imgs, reads, list, size)

ImageBatch(idx, list, size) == ImageLoop(0, idx, <<>>, <<>>, <<>>, list, size)

\* __iter__
ImageIter ==
    /\ pcI = "new"
    /\ pcI' = "iter"
    /\ image_idx' = 0
    /\ UNCHANGED <<images, image_batch, image_reads, image_out>>

\* __next__, called by a for loop: it returns (images, frame_ids) or ends the
\* loop with the IndexError of the list access; nothing in it raises
\* StopIteration.
ImageNext ==
    /\ pcI = "iter"
    /\ Len(image_out) < MaxCalls
    /\ LET got == ImageBatch(image_idx, images, image_batch)
       IN  /\ image_idx' = got.frame_idx
           /\ image_reads' = image_reads \o got.reads
           /\ IF got.raised
                THEN /\ pcI' = "IndexError"
                     /\ UNCHANGED image_out
                ELSE /\ pcI' = pcI
                     /\ image_out' = Append(image_out,
                           [images |-> got.images, frame_ids |-> got.frame_ids])
    /\ UNCHANGED <<images, image_batch>>

\* --------------------------------------------------------- specifications

\* The registry and the matcher at rest.
MatchIdle ==
    /\ mois = <<>>
    /\ loadStatus = "pending"
    /\ gmos = [o \in Objects |-> [moi_uuid |-> None, current_bbox |-> <<0, 1, 3, 3>>,
                                  trajectory |-> << <<0, 0>>, <<4, 0>> >>]]
    /\ last = NoCall

\* A reader nobody iterates.
ReaderIdle ==
    /\ pcR = "new"
    /\ num_frames = -1
    /\ batch_size = 1
    /\ frame_idx = 0

\* An image reader nobody iterates, over an empty directory.
ImageIdle ==
    /\ pcI = "new"
    /\ images = <<>>
    /\ image_batch = 1
    /\ image_idx = 0
    /\ image_reads = <<>>
    /\ image_out = <<>>

\* The capture of a reader just constructed and an idle image reader.
IOIdle == CapInit /\ ImageIdle

\* The matcher over a loaded registry of well-formed MOIs.
Next ==
    \/ LoadWellFormed /\ UNCHANGED <<queueVars, readerVars, ioVars>>
    \/ MoveBBox /\ UNCHANGED <<queueVars, readerVars, ioVars>>
    \/ ExtendTrajectory /\ UNCHANGED <<queueVars, readerVars, ioVars>>
    \/ Associate /\ UNCHANGED <<queueVars, readerVars, ioVars>>

Init == MatchInit /\ QueueInit /\ ReaderIdle /\ IOIdle

Spec == Init /\ [][Next]_vars

\* Loading a configuration file of any records.
NextLoad == LoadAny /\ UNCHANGED <<queueVars, readerVars, ioVars>>

SpecLoad == Init /\ [][NextLoad]_vars

\* The bounded queue under concurrent producers and one consumer.
NextQueue ==
    \/ PutCall /\ UNCHANGED <<matchVars, readerVars, ioVars>>
    \/ PutComplete /\ UNCHANGED <<matchVars, readerVars, ioVars>>
    \/ PutFail /\ UNCHANGED <<matchVars, readerVars, ioVars>>
    \/ GetCall /\ UNCHANGED <<matchVars, readerVars, ioVars>>
    \/ GetItem /\ UNCHANGED <<matchVars, readerVars, ioVars>>
    \/ GetEOS /\ UNCHANGED <<matchVars, readerVars, ioVars>>
    \/ Close /\ UNCHANGED <<matchVars, readerVars, ioVars>>

InitQueue == MatchIdle /\ QueueInit /\ ReaderIdle /\ IOIdle

SpecQueue == InitQueue /\ [][NextQueue]_vars

\* The same, with every call that can return returning: a put that may store
\* or fail, a get that has an item or the end of the stream; and with a
\* consumer that keeps calling get, as the consumer loop does.
FairSpecQueue ==
    /\ SpecQueue
    /\ WF_vars(PutComplete /\ UNCHANGED <<matchVars, readerVars, ioVars>>)
    /\ WF_vars(PutFail /\ UNCHANGED <<matchVars, readerVars, ioVars>>)
    /\ WF_vars(GetCall /\ UNCHANGED <<matchVars, readerVars, ioVars>>)
    /\ WF_vars(GetItem /\ UNCHANGED <<matchVars, readerVars, ioVars>>)
    /\ WF_vars(GetEOS /\ UNCHANGED <<matchVars, readerVars, ioVars>>)

\* One camera: the producer iterates the VideoReader and puts each batch, the
\* consumer gets them; a stop signal closes the queue.
NextPipe ==
    \/ ReaderIter /\ UNCHANGED <<matchVars, queueVars, ioVars>>
    \/ ReaderNext /\ UNCHANGED <<matchVars, ioVars>>
    \/ PutComplete /\ UNCHANGED <<matchVars, readerVars, ioVars>>
    \/ PutFail /\ UNCHANGED <<matchVars, readerVars, ioVars>>
    \/ GetCall /\ UNCHANGED <<matchVars, readerVars, ioVars>>
    \/ GetItem /\ UNCHANGED <<matchVars, readerVars, ioVars>>
    \/ GetEOS /\ UNCHANGED <<matchVars, readerVars, ioVars>>
    \/ Close /\ UNCHANGED <<matchVars, readerVars, ioVars>>

InitPipe == MatchIdle /\ QueueInit /\ ReaderInit /\ IOIdle

SpecPipe == InitPipe /\ [][NextPipe]_vars

\* The VideoReader iterated by a for loop, over a stream or over a file.
NextVideo ==
    \/ ReaderIter /\ UNCHANGED <<matchVars, queueVars, ioVars>>
    \/ VideoNext /\ UNCHANGED <<matchVars, queueVars, imageVars>>
    \/ CloseStream /\ UNCHANGED <<matchVars, queueVars, imageVars>>

InitVideo == MatchIdle /\ QueueInit /\ ReaderInit /\ CapInit /\ ImageIdle

SpecVideo == InitVideo /\ [][NextVideo]_vars

\* The ImageReader iterated by a for loop over a directory.
NextImage ==
    \/ ImageIter /\ UNCHANGED <<matchVars, queueVars, readerVars, capVars>>
    \/ ImageNext /\ UNCHANGED <<matchVars, queueVars, readerVars, capVars>>

InitImage == MatchIdle /\ QueueInit /\ ReaderIdle /\ CapInit /\ ImageInit

SpecImage == InitImage /\ [][NextImage]_vars

\* ------------------------------------------------- properties: the matcher

\* The last step was an associate call of the given mode that was passed
\* object o while o was unassigned.
Matched(o, shape_type) ==
    /\ last.op = "associate"
    /\ last.shape_type = shape_type
    /\ o \in last.passed
    /\ last.before[o] = None

\* The thresholds of MOI m, stated on the distance and the angle themselves.
Distance2(m, track) == hausdorff(m.points, track)
Angle(m, track) == angle_between_arrays(m.points, track)
WithinDistance(m, track) ==
    m.distance_threshold >= 0
    /\ Distance2(m, track) <= m.distance_threshold * m.distance_threshold
WithinAngle(m, track) == Angle(m, track) <= m.angle_threshold

\* The positions of the list ms whose MOI passes both thresholds for track,
\* and those among them at the least distance.
Candidates(ms, track) ==
    {i \in 1..Len(ms) : WithinDistance(ms[i], track) /\ WithinAngle(ms[i], track)}
Nearest(ms, track) ==
    {i \in Candidates(ms, track) :
        \A j \in Candidates(ms, track) : Distance2(ms[i], track) <= Distance2(ms[j], track)}

\* The positions of the list ms whose polygon holds the centre of bbox,
\* inside or on an edge.
Holding(ms, bbox) == {i \in 1..Len(ms) : is_center_in_or_touch_moi(ms[i], bbox) >= 0}

\* C1: once an object's moi_uuid is not None, no step changes it: associate
\* writes moi_uuid only while it is None, whatever the mode, the MOI list, the
\* bounding box and the trajectory.
C1_WriteOnce ==
    [][\A o \in Objects :
          gmos[o].moi_uuid # None => gmos'[o].moi_uuid = gmos[o].moi_uuid]_vars

\* C1's case: associate was called on an assigned object for which the
\* matcher, asked afresh, finds another MOI; the assignment stayed.
C1_Witness ==
    \E o \in Objects :
        /\ last.op = "associate" /\ o \in last.passed
        /\ last.before[o] # None
        /\ gmos[o].moi_uuid = last.before[o]
        /\ LET fresh == AssociateOne([gmos[o] EXCEPT !.moi_uuid = None], mois,
                                     last.shape_type).moi_uuid
           IN  fresh # None /\ fresh # gmos[o].moi_uuid

\* C2 as claimed: when several linestrip MOIs pass their thresholds at the
\* same least distance, the one earliest in the list is assigned.
C2_EarlierWinsTie ==
    \A o \in Objects :
        LET ms == linestrip_mois(mois)
            near == Nearest(ms, gmos[o].trajectory)
        IN  Matched(o, "linestrip") /\ Cardinality(near) >= 2
            => gmos[o].moi_uuid = Some(ms[Min(near)].uuid)

\* C2 amended: when several linestrip MOIs pass their thresholds at the same
\* least distance, the one latest in the list is assigned (the running
\* minimum is kept only while strictly smaller; an equal distance replaces it).
C2_LaterWinsTie ==
    \A o \in Objects :
        LET ms == linestrip_mois(mois)
            near == Nearest(ms, gmos[o].trajectory)
        IN  Matched(o, "linestrip") /\ Cardinality(near) >= 2
            => gmos[o].moi_uuid = Some(ms[Max(near)].uuid)

\* C2's case: a linestrip call on an unassigned object with two MOIs tied at
\* the least distance.
C2_Witness ==
    \E o \in Objects :
        /\ Matched(o, "linestrip")
        /\ Cardinality(Nearest(linestrip_mois(mois), gmos[o].trajectory)) >= 2
        /\ gmos[o].moi_uuid # None

\* C3 as claimed: a polygon call gives an unassigned object the uuid of the
\* first polygon MOI whose test of the bounding-box centre is >= 0 (inside or
\* on an edge), and leaves it unassigned only when every test is negative.
C3_FirstPolygonInOrOnEdge ==
    \A o \in Objects :
        LET ms == polygon_mois(mois)
            hold == Holding(ms, gmos[o].current_bbox)
        IN  Matched(o, "polygon")
            => gmos[o].moi_uuid = IF hold = {} THEN None ELSE Some(ms[Min(hold)].uuid)

\* C4: a linestrip call that assigns an MOI assigns one that passes both of
\* its thresholds and is at the least distance among those that do; when an
\* MOI with thresholds >= 0 is at distance 0 and angle 0, the assigned MOI is
\* at distance 0, never one at a nonzero distance.
C4_BestMatch ==
    \A o \in Objects :
        LET ms == linestrip_mois(mois)
            track == gmos[o].trajectory
            exact == {i \in 1..Len(ms) :
                        /\ Distance2(ms[i], track) = 0 /\ Angle(ms[i], track) = 0
                        /\ ms[i].distance_threshold >= 0 /\ ms[i].angle_threshold >= 0}
        IN  Matched(o, "linestrip")
            => /\ gmos[o].moi_uuid # None
                  => \E i \in Nearest(ms, track) : gmos[o].moi_uuid = Some(ms[i].uuid)
               /\ exact # {}
                  => \E i \in 1..Len(ms) : /\ gmos[o].moi_uuid = Some(ms[i].uuid)
                                           /\ Distance2(ms[i], track) = 0

\* C4's case: a linestrip call on an unassigned object whose trajectory is
\* the reference path of one MOI while an MOI later in the list passes its
\* thresholds at a nonzero distance; the exact one was assigned.
C4_Witness ==
    \E o \in Objects :
        LET ms == linestrip_mois(mois)
            track == gmos[o].trajectory
        IN  /\ Matched(o, "linestrip")
            /\ \E i, j \in Candidates(ms, track) :
                  /\ i < j
                  /\ ms[i].points = track
                  /\ Distance2(ms[j], track) > 0
                  /\ gmos[o].moi_uuid = Some(ms[i].uuid)

\* C5: a linestrip call leaves an unassigned object unassigned when every
\* linestrip MOI fails its distance or its angle threshold, an empty list
\* included.
C5_ThresholdExclusion ==
    \A o \in Objects :
        Matched(o, "linestrip")
        /\ Candidates(linestrip_mois(mois), gmos[o].trajectory) = {}
        => gmos[o].moi_uuid = None

\* C5's case: a linestrip call over a list that holds a linestrip MOI within
\* its distance threshold and another within its angle threshold, none within
\* both.
C5_Witness ==
    \E o \in Objects :
        LET ms == linestrip_mois(mois)
            track == gmos[o].trajectory
        IN  /\ Matched(o, "linestrip")
            /\ Candidates(ms, track) = {}
            /\ \E i \in 1..Len(ms) : WithinDistance(ms[i], track)
            /\ \E i \in 1..Len(ms) : WithinAngle(ms[i], track)
            /\ gmos[o].moi_uuid = None

\* C6 as claimed: no loaded MOI list holds an MOI with fewer than 2 points.
C6_AtLeastTwoPoints ==
    \A i \in 1..Len(mois) : Len(mois[i].points) >= 2

\* No polygon MOI holds the centre of the bounding box: every test is negative.
OutsideEveryPolygon(o) == Holding(polygon_mois(mois), gmos[o].current_bbox) = {}

\* C7 as claimed: a polygon call in which no polygon MOI matches goes on to
\* linestrip matching, so an object whose trajectory passes a linestrip MOI's
\* thresholds ends the call assigned.
C7_PolygonFallsBackToLinestrip ==
    \A o \in Objects :
        /\ Matched(o, "polygon")
        /\ OutsideEveryPolygon(o)
        /\ Candidates(linestrip_mois(mois), gmos[o].trajectory) # {}
        => gmos[o].moi_uuid # None

\* C7 amended: a call runs the one mode its shape_type names.  A polygon call
\* in which no polygon MOI holds the centre leaves the object unassigned, also
\* when a linestrip MOI would pass; a linestrip call assigns an unassigned
\* object whose trajectory passes a linestrip MOI's thresholds to such an MOI.
C7_OneModePerCall ==
    \A o \in Objects :
        LET ms == linestrip_mois(mois)
            cand == Candidates(ms, gmos[o].trajectory)
        IN  /\ Matched(o, "polygon") /\ OutsideEveryPolygon(o)
               => gmos[o].moi_uuid = None
            /\ Matched(o, "linestrip") /\ cand # {}
               => \E i \in cand : gmos[o].moi_uuid = Some(ms[i].uuid)

\* C7's case: a polygon call on an unassigned object outside every polygon
\* whose trajectory passes a linestrip MOI's thresholds.
C7_Witness ==
    \E o \in Objects :
        /\ Matched(o, "polygon")
        /\ polygon_mois(mois) # <<>>
        /\ OutsideEveryPolygon(o)
        /\ Candidates(linestrip_mois(mois), gmos[o].trajectory) # {}
        /\ gmos[o].moi_uuid = None

\* --------------------------------------- properties: the queue, the pipeline

\* The items handed to put so far that the queue has to account for.
Issued == {<<n>> : n \in 1..issued}
Pending == {itemP[p] : p \in {q \in Producers : pcP[q] = "put"}}

\* C8: the queue never holds more than QueueSize items; a put returns only
\* from a buffer below capacity, so with QueueSize items buffered it blocks
\* until a get; no item is dropped (every item handed to put is still pending,
\* was rejected by a closed queue, or was accepted, and the accepted ones are
\* exactly those delivered followed by those buffered); and a blocked put does
\* return once the consumer gets.
C8_Backpressure ==
    /\ [](Len(buf) <= QueueSize)
    /\ [][\A p \in Producers :
            pcP[p] = "put" /\ pcP'[p] = "idle" /\ ~closed => Len(buf) < QueueSize]_vars
    /\ [](/\ accepted = delivered \o buf
          /\ Issued = Range(accepted) \cup Pending \cup rejected
          /\ Cardinality(Issued) = Len(accepted) + Cardinality(Pending) + Cardinality(rejected))
    /\ \A p \in Producers : (pcP[p] = "put") ~> (pcP[p] = "idle")

\* C8's case: a put is blocked on a full buffer after more than QueueSize
\* items have been accepted, so that an earlier put waited for a get.
C8_Witness ==
    /\ ~closed
    /\ Len(buf) = QueueSize
    /\ \E p \in Producers : pcP[p] = "put"
    /\ Len(accepted) > QueueSize
    /\ rejected = {}

\* C9: once closed the queue stays closed and accepts nothing more (a pending
\* put ends rejected), a further close changes nothing, what was accepted at
\* the close is what get has delivered plus what is still buffered, and the
\* consumer ends with every item accepted before the close delivered and the
\* end-of-stream signal returned; a get on the closed queue never blocks for
\* ever.
C9_Shutdown ==
    /\ [][closed => closed' /\ accepted' = accepted /\ atClose' = atClose]_vars
    /\ [](closed => atClose = Some(accepted) /\ accepted = delivered \o buf)
    /\ \A p \in Producers : (closed /\ pcP[p] = "put") ~> (itemP[p] = <<>> /\ atClose = Some(accepted))
    /\ (closed /\ pcC = "get") ~> (pcC # "get")
    /\ closed ~> (pcC = "done" /\ atClose = Some(delivered) /\ buf = <<>>)

\* C9's case: the queue was closed with items buffered and a put pending; the
\* put was rejected, the buffered items were delivered and get returned the
\* end of the stream.
C9_Witness ==
    /\ closed
    /\ pcC = "done"
    /\ rejected # {}
    /\ atClose # None
    /\ Len(delivered) = MaxItems - 1
    /\ atClose = Some(delivered)

\* The frame indexes of a sequence of batches, in order.
RECURSIVE Flatten(_)
Flatten(batches) ==
    IF batches = <<>> THEN <<>> ELSE Head(batches) \o Flatten(Tail(batches))

StrictlyIncreasing(s) == \A i \in 1..Len(s) - 1 : s[i] < s[i + 1]

\* C10: the consumer receives the batches in the order the producer enqueued
\* them (what it has received, followed by what is buffered, is what was
\* enqueued); the frame indexes it observes increase strictly within a batch
\* and from one batch to the next; no batch holds more than batch_size frames.
C10_Ordering ==
    /\ delivered \o buf = accepted
    /\ StrictlyIncreasing(Flatten(delivered))
    /\ \A i \in 1..Len(delivered) : Len(delivered[i]) <= batch_size

\* C10's case: the consumer has received two full batches of more than one
\* frame each, one after the other, and the reader has stopped.
C10_Witness ==
    /\ batch_size > 1
    /\ Len(delivered) >= 2
    /\ Len(delivered[1]) = batch_size
    /\ Len(delivered[2]) = batch_size
    /\ pcR = "stopped"


\* ---------------------------------------------- properties: the VideoReader

\* The frames handed out so far, batch after batch.
Delivered == Flatten([i \in 1..Len(yielded) |-> yielded[i].images])

\* C11: a VideoReader opened on an online stream (num_frames stays -1) does
\* not signal the end of the stream before any frame has been read: when its
\* iteration has stopped, at least one frame has been read and a batch
\* returned.
C11_StreamYieldsBeforeStop ==
    (num_frames = -1 /\ pcR = "stopped") => (cap_pos > 0 /\ yielded # <<>>)

\* C12: iterating a VideoReader over a file of N frames delivers every one of
\* the N frames exactly once before StopIteration, and no returned batch is
\* empty: no batch returned has no image, and once the iteration over a file
\* whose capture is still open has stopped, the frames delivered are
\* 1, 2, .., N in this order.
C12_EveryFrameOnceNoEmptyBatch ==
    /\ \A i \in 1..Len(yielded) : yielded[i].images # <<>>
    /\ (num_frames >= 0 /\ pcR = "stopped" /\ cap_open)
         => Delivered = [k \in 1..num_frames |-> Some(k)]


\* ---------------------------------------------- properties: the ImageReader

\* The images returned by the first n calls, batch after batch.
ImagesOut(n) == Flatten([i \in 1..n |-> image_out[i].images])

\* C13: iterating an ImageReader over a directory of M images only ever reads
\* list positions within 0..M-1, returns each of the M images exactly once
\* across its batches, and then signals end-of-stream: every list position
\* read is inside the list, no image is returned twice, no batch is returned
\* by a call made after all M images were returned, and an iteration that
\* has ended has returned the M images.
C13_ReadsInRangeEachOnceThenEnds ==
    /\ \A k \in 1..Len(image_reads) : image_reads[k] \in 0..(number_of_frame - 1)
    /\ \A a, b \in 1..Len(ImagesOut(Len(image_out))) :
          a # b => ImagesOut(Len(image_out))[a] # ImagesOut(Len(image_out))[b]
    /\ \A i \in 1..Len(image_out) : Len(ImagesOut(i - 1)) < number_of_frame
    /\ pcI = "stopped" => Range(ImagesOut(Len(image_out))) = Range(images)

=============================================================================
